---- MODULE Spec2Model ----
(***************************************************************************)
(* Model of is_valid_password (1__Empathy_Encryption_Hackathon/main.py).   *)
(*                                                                         *)
(* A password is a sequence of characters; a character is a one-character  *)
(* string.  The alphabet is ASCII: letters, digits, punctuation, space,    *)
(* line feed and carriage return.                                          *)
(*                                                                         *)
(* The float ratios of the source are compared with their decimal          *)
(* thresholds by cross-multiplication, which agrees with the float         *)
(* comparison for every length up to 128.  The entropy is compared with    *)
(* 2.5 through a fixed-point table of c*log2(c); where the entropy is      *)
(* exactly 5/2 and the float summands are inexact, the verdict of          *)
(* "H >= 2.5" depends on the rounding of the float sum and is the free     *)
(* boolean fpTie.                                                          *)
(***************************************************************************)
EXTENDS Integers, Sequences, FiniteSets, TLC

VARIABLES password, fpTie, pc, s, score, result, output

vars == <<password, fpTie, pc, s, score, result, output>>

-----------------------------------------------------------------------------
(* Characters and strings                                                  *)

\* A string literal as its sequence of one-character strings.
Str(lit) == [i \in 1..Len(lit) |-> SubSeq(lit, i, i)]

LF == "\n"
CR == "\r"

Range(f) == {f[i] : i \in DOMAIN f}

LowerSeq == Str("abcdefghijklmnopqrstuvwxyz")
UpperSeq == Str("ABCDEFGHIJKLMNOPQRSTUVWXYZ")
DigitSeq == Str("0123456789")

LowerSet == Range(LowerSeq)
UpperSet == Range(UpperSeq)
DigitSet == Range(DigitSeq)
LetterSet == LowerSet \cup UpperSet
VowelSet == Range(Str("AEIOUaeiou"))
ConsonantSet == LetterSet \ VowelSet
\* str.isspace() on the model's alphabet.
SpaceSet == {" ", LF, CR}

\* c.isdigit(), c.isalnum(), c.isspace()
isdigit(c) == c \in DigitSet
isalnum(c) == c \in LetterSet \cup DigitSet
isspace(c) == c \in SpaceSet

\* str.lower() of one character.
LowerOf == [c \in UpperSet |-> LowerSeq[CHOOSE i \in 1..26 : UpperSeq[i] = c]]
lower_char(c) == IF c \in UpperSet THEN LowerOf[c] ELSE c

\* str.lower()
lower(text) == [i \in 1..Len(text) |-> lower_char(text[i])]

\* text[::-1]
reversed(text) == [i \in 1..Len(text) |-> text[Len(text) + 1 - i]]

\* Python's "pat in text" for strings.
In(pat, text) ==
    \E i \in 1..(Len(text) - Len(pat) + 1) :
        \A k \in 1..Len(pat) : text[i + k - 1] = pat[k]

\* str.strip(chars): drop leading, then trailing, characters of the set.
RECURSIVE lstrip(_, _)
lstrip(text, chars) ==
    IF text # <<>> /\ Head(text) \in chars
    THEN lstrip(Tail(text), chars)
    ELSE text

RECURSIVE rstrip(_, _)
rstrip(text, chars) ==
    IF text # <<>> /\ text[Len(text)] \in chars
    THEN rstrip(SubSeq(text, 1, Len(text) - 1), chars)
    ELSE text

\* Variant: only the trailing characters are stripped.
strip_trailingOnly(text, chars) == rstrip(text, chars)

strip(text, chars) == rstrip(lstrip(text, chars), chars)

\* re.sub(r"[^A-Za-z]", "", seg)
letters_only(seg) == SelectSeq(seg, LAMBDA c : c \in LetterSet)

RECURSIVE SumOver(_, _)
SumOver(S, f) ==
    IF S = {} THEN 0
    ELSE LET x == CHOOSE y \in S : TRUE
         IN f[x] + SumOver(S \ {x}, f)

-----------------------------------------------------------------------------
(* Program constants                                                       *)

MinLen == 8
MaxLen == 128
Threshold == 3

COMMON_BAD ==
    { Str("password"), Str("passw0rd"), Str("qwerty"), Str("asdfgh"),
      Str("zxcvbn"), Str("iloveyou"), Str("welcome"), Str("admin"),
      Str("letmein"), Str("login"), Str("user"), Str("guest"),
      Str("abc123"), Str("password1"), Str("p@ssword"), Str("dragon"),
      Str("football") }

\* round(c * log2(c) * 10^6) for c = 1..129
XLog2X ==
   << 0, 2000000, 4754888, 8000000, 11609640, 15509775, 19651484, 24000000,
      28529325, 33219281, 38053748, 43019550, 48105716, 53302969, 58603359, 64000000,
      69486868, 75058650, 80710623, 86438562, 92238666, 98107496, 104041925, 110039100,
      116096405, 122211433, 128381963, 134605938, 140881449, 147206718, 153580086, 160000000,
      166465006, 172973737, 179524906, 186117300, 192749775, 199421246, 206130687, 212877124,
      219659632, 226477332, 233329384, 240214991, 247133389, 254083850, 261065676, 268078200,
      275120782, 282192809, 289293692, 296422865, 303579784, 310763925, 317974784, 325211876,
      332474731, 339762898, 347075940, 354413436, 361774978, 369160171, 376568635, 384000000,
      391453908, 398930012, 406427976, 413947473, 421488188, 429049811, 436632045, 444234600,
      451857193, 459499549, 467161402, 474842491, 482542564, 490261373, 497998679, 505754248,
      513527850, 521319264, 529128273, 536954664, 544798230, 552658769, 560536084, 568429982,
      576340275, 584266779, 592209312, 600167700, 608141769, 616131352, 624136283, 632156400,
      640191546, 648241565, 656306305, 664385619, 672479360, 680587385, 688709554, 696845731,
      704995779, 713159568, 721336968, 729527850, 737732091, 745949568, 754180161, 762423751,
      770680223, 778949462, 787231356, 795525795, 803832672, 812151880, 820483314, 828826871,
      837182452, 845549955, 853929284, 862320342, 870723036, 879137270, 887562955, 896000000,
      904448316 >>

-----------------------------------------------------------------------------
(* Helper functions of is_valid_password                                   *)

\* freq: the number of occurrences of each character of text.
freq(text) ==
    [c \in Range(text) |-> Cardinality({i \in DOMAIN text : text[i] = c})]

\* len(text) * H(text) * 10^6, H the Shannon entropy in bits per character:
\* H = -sum p*log2(p) = (n*log2(n) - sum c*log2(c)) / n.
shannon_entropy_per_char(text) ==
    IF text = <<>> THEN 0
    ELSE LET f == freq(text)
         IN  XLog2X[Len(text)]
               - SumOver(DOMAIN f, [c \in DOMAIN f |-> XLog2X[f[c]]])

RECURSIVE Valuation(_, _)
Valuation(n, p) == IF n % p = 0 THEN 1 + Valuation(n \div p, p) ELSE 0

Primes == {p \in 2..129 : \A q \in 2..(p - 1) : p % q # 0}

\* n * (H - 2.5) * 10^6, up to the rounding of the table (at most half a
\* unit for each distinct character and for n).
EntropyGap(text) == shannon_entropy_per_char(text) - 2500000 * Len(text)

\* H(text) is exactly 5/2: prod c^(2c) * 2^(5n) = n^(2n), prime by prime.
EntropyIsFiveHalves(text) ==
    LET f == freq(text)
        n == Len(text)
    IN  /\ n > 0
        /\ EntropyGap(text) \in -100..100
        /\ \A p \in {q \in Primes : q <= n} :
              SumOver(DOMAIN f, [c \in DOMAIN f |-> 2 * f[c] * Valuation(f[c], p)])
                + (IF p = 2 THEN 5 * n ELSE 0)
              = 2 * n * Valuation(n, p)

IsPowerOfTwo(n) == \E e \in 0..7 : n = 2 ^ e

\* Every probability c/n is a power of two, so every float operation of the
\* entropy sum is exact.
EntropyIsExactInFloat(text) ==
    LET f == freq(text)
    IN  \A c \in DOMAIN f :
           /\ Len(text) % f[c] = 0
           /\ IsPowerOfTwo(Len(text) \div f[c])

\* H >= 2.5 as the float comparison decides it.  When H is exactly 5/2 and
\* the summands are inexact, the rounding of the float sum decides: tie.
EntropyTie(text) ==
    EntropyIsFiveHalves(text) /\ ~EntropyIsExactInFloat(text)

entropy_at_least_2_5(text, tie) ==
    IF EntropyIsFiveHalves(text)
    THEN EntropyIsExactInFloat(text) \/ tie
    ELSE EntropyGap(text) >= 0

\* (has_lower, has_upper, has_digit, has_symbol)
char_classes(text) ==
    << \E i \in DOMAIN text : text[i] \in LowerSet,
       \E i \in DOMAIN text : text[i] \in UpperSet,
       \E i \in DOMAIN text : isdigit(text[i]),
       \E i \in DOMAIN text : ~isalnum(text[i]) /\ ~isspace(text[i]) >>

runs == <<LowerSeq, UpperSeq, DigitSeq>>

looks_like_sequence(text, min_run) ==
    IF Len(text) < min_run THEN FALSE
    ELSE \E j \in DOMAIN runs :
           LET r == runs[j]
               rev == reversed(r)
           IN  \/ \E i \in 1..(Len(r) - min_run + 1) :
                     In(SubSeq(r, i, i + min_run - 1), text)
               \/ \E i \in 1..(Len(rev) - min_run + 1) :
                     In(SubSeq(rev, i, i + min_run - 1), text)

rows == <<Str("qwertyuiop"), Str("asdfghjkl"), Str("zxcvbnm")>>

has_keyboard_run(text, min_run) ==
    LET t == lower(text)
    IN  \E j \in DOMAIN rows :
          \E i \in 1..(Len(rows[j]) - min_run + 1) :
            LET seg == SubSeq(rows[j], i, i + min_run - 1)
            IN  In(seg, t) \/ In(reversed(seg), t)

looks_like_word_segment(chunk) ==
    LET seg == letters_only(chunk)
        has_vowel == \E i \in DOMAIN seg : seg[i] \in VowelSet
        has_cons == \E i \in DOMAIN seg :
                       seg[i] \in LetterSet
                       /\ lower_char(seg[i]) \notin Range(Str("aeiou"))
        sandwich == \E i \in 1..(Len(seg) - 2) :
                       /\ seg[i] \in ConsonantSet
                       /\ seg[i + 1] \in VowelSet
                       /\ seg[i + 2] \in ConsonantSet
    IN  IF Len(seg) < 4 THEN FALSE
        ELSE has_vowel /\ has_cons /\ sandwich

\* The character class [\s\-_\.@#\$%!:\+\*] of the split.
SeparatorSet == SpaceSet \cup Range(Str("-_.@#$%!:+*"))

\* re.split(r"[...]+", text): the maximal separator-free pieces of text
\* (and the empty pieces at a separator edge, which are no word segment).
ChunkEnd(text, i) ==
    CHOOSE j \in i..Len(text) :
        /\ j = Len(text) \/ text[j + 1] \in SeparatorSet
        /\ \A k \in (i + 1)..j : text[k] \notin SeparatorSet

chunks(text) ==
    { SubSeq(text, i, ChunkEnd(text, i)) :
        i \in { k \in 1..Len(text) :
                  /\ text[k] \notin SeparatorSet
                  /\ (k = 1 \/ text[k - 1] \in SeparatorSet) } }

\* re.search(r"[A-Z][a-z]+[A-Z][a-z]*", text)
CamelCase(text) ==
    \E i \in 1..Len(text) : \E j \in (i + 2)..Len(text) :
        /\ text[i] \in UpperSet
        /\ text[j] \in UpperSet
        /\ \A k \in (i + 1)..(j - 1) : text[k] \in LowerSet

wordish_presence(text) ==
    \/ \E chunk \in chunks(text) : looks_like_word_segment(chunk)
    \/ CamelCase(text)

repeating_substring(text) ==
    LET n == Len(text)
        min4n == IF 4 < n THEN 4 ELSE n
    IN  \E m \in 1..(min4n - 1) :
          /\ n % m = 0
          /\ \A i \in 1..n : text[i] = text[((i - 1) % m) + 1]

\* re.search(r"(.)\1{k,}", text): "." matches any character but line feed.
long_run_same_char(text, k) ==
    \E i \in 1..(Len(text) - k) :
        /\ text[i] # LF
        /\ \A j \in 1..k : text[i + j] = text[i]

groups == << Range(Str("0O")), Range(Str("1lI")), Range(Str("5S")),
             Range(Str("8B")), Range(Str("2Z")), Range(Str("6G")) >>

\* amb, the numerator of ambiguous_ratio; the denominator is max(1, len).
amb_count(text) ==
    Cardinality({i \in DOMAIN text : \E g \in DOMAIN groups : text[i] \in groups[g]})

\* ambiguous_ratio(text) > num/den, for a decimal literal num/den.
ambiguous_ratio_gt(text, num, den) ==
    LET len1 == IF Len(text) > 1 THEN Len(text) ELSE 1
    IN  amb_count(text) * den > num * len1

non_edge_digit_symbol(text) ==
    \/ \E i \in 1..(Len(text) - 2) :
          /\ text[i] \in LetterSet
          /\ text[i + 1] \in DigitSet
          /\ text[i + 2] \in LetterSet
    \/ \E i \in 1..(Len(text) - 2) :
          /\ text[i] \in LetterSet
          /\ text[i + 1] \notin LetterSet \cup DigitSet
          /\ text[i + 2] \in LetterSet

\* re.search(r"(19\d{2}|20[0-3]\d)$", text); "$" matches at the end of the
\* text and before a line feed that ends it.
has_year_like_suffix(text) ==
    \E e \in {Len(text)} \cup
             (IF text # <<>> /\ text[Len(text)] = LF THEN {Len(text) - 1} ELSE {}) :
        /\ e >= 4
        /\ \/ /\ text[e - 3] = "1" /\ text[e - 2] = "9"
              /\ isdigit(text[e - 1]) /\ isdigit(text[e])
           \/ /\ text[e - 3] = "2" /\ text[e - 2] = "0"
              /\ text[e - 1] \in {"0", "1", "2", "3"} /\ isdigit(text[e])

-----------------------------------------------------------------------------
(* The decision engine                                                     *)

StripChars == {LF, CR}

TooShort(text) == Len(text) < MinLen
\* Variant: the upper limit is off by one.
TooLong_offByOne(text) == Len(text) > MaxLen + 1

TooLong(text) == Len(text) > MaxLen

\* Variant: the tokens are searched in the text as typed, not lowered.
CommonBad_caseSensitive(text) ==
    \E token \in COMMON_BAD : In(token, text)

\* any(token in lowered for token in COMMON_BAD)
CommonBad(text) ==
    LET lowered == lower(text)
    IN  \E token \in COMMON_BAD : In(token, lowered)

\* Variant: the sequential-run check is left out of the fatal blocks.
FatalBlocks_noSequence(text) ==
    \/ CommonBad(text)
    \/ has_keyboard_run(text, 5)
    \/ repeating_substring(text)
    \/ long_run_same_char(text, 4)
    \/ ambiguous_ratio_gt(text, 55, 100)

\* Fatal blocks (auto-reject rules)
FatalBlocks(text) ==
    \/ CommonBad(text)
    \/ looks_like_sequence(text, 5) \/ has_keyboard_run(text, 5)
    \/ repeating_substring(text)
    \/ long_run_same_char(text, 4)
    \/ ambiguous_ratio_gt(text, 55, 100)

LengthScore(text) ==
    IF 10 <= Len(text) /\ Len(text) <= 64 THEN 2
    ELSE IF 8 <= Len(text) /\ Len(text) < 10 THEN 1
    ELSE 0

class_count(text) ==
    LET cc == char_classes(text)
    IN  Cardinality({i \in 1..4 : cc[i]})

\* Variant: one class or none costs 2 instead of 3.
ClassScore_weak(text) ==
    IF class_count(text) >= 3 THEN 2
    ELSE IF class_count(text) = 2 THEN 1
    ELSE -2

ClassScore(text) ==
    IF class_count(text) >= 3 THEN 2
    ELSE IF class_count(text) = 2 THEN 1
    ELSE -3

WordishScore(text) == IF wordish_presence(text) THEN 2 ELSE 0

InteriorScore(text) == IF non_edge_digit_symbol(text) THEN 1 ELSE 0

YearScore(text) == IF has_year_like_suffix(text) THEN -2 ELSE 0

RunScore(text) ==
    (IF looks_like_sequence(text, 4) THEN -2 ELSE 0)
    + (IF has_keyboard_run(text, 4) THEN -2 ELSE 0)

RepetitionScore(text) == IF long_run_same_char(text, 3) THEN -2 ELSE 0

\* uniq_ratio = len(set(s)) / len(s), compared with 0.5 and 0.3
UniqueScore(text) ==
    LET uniq == Cardinality(Range(text))
    IN  IF 2 * uniq >= Len(text) THEN 1
        ELSE IF 10 * uniq <= 3 * Len(text) THEN -1
        ELSE 0

AmbiguityScore(text) ==
    IF ambiguous_ratio_gt(text, 35, 100) THEN -2
    ELSE IF ambiguous_ratio_gt(text, 15, 100) THEN -1
    ELSE 0

EntropyScore(text, tie) ==
    IF Len(text) >= 12 /\ entropy_at_least_2_5(text, tie) THEN 1 ELSE 0

\* Scoring system (soft checks)
ScoreOf(text, tie) ==
    LengthScore(text) + ClassScore(text) + WordishScore(text)
    + InteriorScore(text) + YearScore(text) + RunScore(text)
    + RepetitionScore(text) + UniqueScore(text) + AmbiguityScore(text)
    + EntropyScore(text, tie)

\* Variant: the comparison is inverted.
FinalDecision_inverted(sc) == sc < Threshold

FinalDecision(sc) == sc >= Threshold

\* The verdict of is_valid_password on a string.
is_valid_password(p) ==
    LET t == strip(p, StripChars)
    IN  IF TooShort(t) THEN FALSE
        ELSE IF TooLong(t) THEN FALSE
        ELSE IF FatalBlocks(t) THEN FALSE
        ELSE FinalDecision(ScoreOf(t, fpTie))

-----------------------------------------------------------------------------
(* Inputs: the strings main may read                                       *)

\* Bounds of the input families.
MaxPad == 2
MaxRun == 6
MaskWidth == 3
LenSlack == 2

\* The first n characters of base repeated.
Cycle(base, n) == [i \in 1..n |-> base[((i - 1) % Len(base)) + 1]]

\* The docstring's examples.
AcceptedExamples ==
    { Str("mintChai#27Drift"), Str("QuietLake_204"), Str("Paper-Plane3!oak"),
      Str("Granite*fox4River"), Str("Sparrow7!maple"), Str("NovaTrail_19$elm"),
      Str("copperLeaf@82Walk"), Str("nerdyCamel12!rope"),
      Str("ByteGarden-31%wave"), Str("Himalaya!leaf82") }

RejectedExamples ==
    { Str("password123"), Str("qwerty2024"), Str("asdfghjk"), Str("11111111"),
      Str("O0O0O0O0"), Str("ABABABAB"), Str("letmein"), Str("iloveyou1"),
      Str("admin2021"), Str("user@123") }

\* A string whose entropy is exactly 5/2 with inexact summands.
TieExample == Str("tnaian nnnaannimaoat enn")

\* Three fragments in a row.
Heads ==
    { <<>>, Str("mint"), Str("Quiet"), Str("bdfh "), Str("8675309"),
      Str("O0O0"), Str("aaaa"), Str("qwer"), Str("abcd"), Str("X7y") }

Mids ==
    { <<>>, Str("Chai"), Str("Chai#"), Str("Lake_"), Str("jlnp "),
      Str("27"), Str(" "), Str("Il1"), Str("ZZ") }

Tails ==
    { <<>>, Str("Drift"), Str("#27Drift"), Str("2024"), Str("1999"),
      Str("2040"), Str("12345"), Str("rtvx"), Str("Drift2024"),
      Str("Drift12345"), Str("31415926") }

Composed == { h \o m \o t : h \in Heads, m \in Mids, t \in Tails }

\* Lengths around the limits and the scoring thresholds.
LengthBases ==
    { Str("mintChai#27Drift"), Str("Lake_204 Quiet"), Str("8675309"),
      Str("bdfh jlnp rtvx ") }

Lengths ==
    (0..(MinLen + LenSlack)) \cup {11, 12, 13, 64, 65}
    \cup ((MaxLen - LenSlack)..(MaxLen + LenSlack))

LengthFamily == { Cycle(b, n) : b \in LengthBases, n \in Lengths }

\* Line-break padding around a core.
RECURSIVE SeqsUpTo(_, _)
SeqsUpTo(S, n) ==
    IF n = 0 THEN {<<>>}
    ELSE LET shorter == SeqsUpTo(S, n - 1)
         IN  shorter \cup { <<c>> \o q : c \in S, q \in shorter }

Pads == SeqsUpTo({LF, CR}, MaxPad)

PadCores ==
    { <<>>, Str("mint#Ch"), Str("mintChai#27Drift"), Str("QuietLake_204"),
      Str("mint"), Str("min\nt\rChai#7"), Str("password123") }

\* Cores at the upper length limit, with at most a line ending around them.
LongCores ==
    { Cycle(Str("mintChai#27Drift"), MaxLen),
      Cycle(Str("mintChai#27Drift"), MaxLen - 1) }

LineEndings == { <<>>, <<LF>>, <<CR>>, <<CR, LF>> }

PadFamily ==
    { a \o core \o b : a \in Pads, core \in PadCores, b \in Pads }
    \cup { a \o core \o b : a \in LineEndings, core \in LongCores, b \in LineEndings }

\* A run of one character inside an otherwise acceptable password.
RunChars == {"a", "Z", "7", "#", " ", "_", CR, LF}

RunFamily ==
    { pre \o [i \in 1..k |-> c] \o post :
        pre \in {Str("mint"), Str("Qu1"), <<>>},
        c \in RunChars,
        k \in 3..MaxRun,
        post \in {Str("Chai#27Drift"), Str("x"), Str("Lake_9")} }

\* A denylist token in mixed case inside an otherwise acceptable password:
\* the letters at the positions of mask (counted modulo MaskWidth) are
\* upper case.
upper_char(c) ==
    IF c \in LowerSet THEN UpperSeq[CHOOSE i \in 1..26 : LowerSeq[i] = c] ELSE c

MixedCase(token, mask) ==
    [i \in 1..Len(token) |->
        IF ((i - 1) % MaskWidth) + 1 \in mask THEN upper_char(token[i])
        ELSE token[i]]

DenyFamily ==
    { pre \o MixedCase(token, mask) \o post :
        pre \in {Str("mintChai#"), Str("Lake"), <<>>},
        token \in COMMON_BAD,
        mask \in SUBSET (1..MaskWidth),
        post \in {Str("27Drift"), Str("_9x"), <<>>} }

Inputs ==
    AcceptedExamples \cup RejectedExamples \cup {TieExample}
    \cup Composed \cup LengthFamily \cup PadFamily \cup RunFamily
    \cup DenyFamily

-----------------------------------------------------------------------------
(* The program: main reads a password, is_valid_password judges it in its  *)
(* three stages, main prints the verdict.                                  *)

Init ==
    /\ password \in Inputs
    /\ fpTie \in BOOLEAN
    /\ pc = "guard"
    /\ s = <<>>
    /\ score = 0
    /\ result = FALSE
    /\ output = "none"

\* Guard rails: strip, then the two length limits.
GuardRails ==
    /\ pc = "guard"
    /\ s' = strip(password, StripChars)
    /\ IF TooShort(s') \/ TooLong(s')
       THEN result' = FALSE /\ pc' = "returned"
       ELSE result' = result /\ pc' = "fatal"
    /\ UNCHANGED <<password, fpTie, score, output>>

\* Fatal blocks: any of them returns False before the scoring.
Fatal ==
    /\ pc = "fatal"
    /\ IF FatalBlocks(s)
       THEN result' = FALSE /\ pc' = "returned"
       ELSE result' = result /\ pc' = "scoring"
    /\ UNCHANGED <<password, fpTie, s, score, output>>

\* Scoring system and final decision.
Scoring ==
    /\ pc = "scoring"
    /\ score' = ScoreOf(s, fpTie)
    /\ result' = FinalDecision(score')
    /\ pc' = "returned"
    /\ UNCHANGED <<password, fpTie, s, output>>

\* main: print the verdict.
PrintVerdict ==
    /\ pc = "returned"
    /\ output' = IF result THEN "Accept" ELSE "Reject"
    /\ pc' = "done"
    /\ UNCHANGED <<password, fpTie, s, score, result>>

Next == GuardRails \/ Fatal \/ Scoring \/ PrintVerdict

Spec == Init /\ [][Next]_vars

Returned == pc \in {"returned", "done"}

-----------------------------------------------------------------------------
(* Vocabulary of the properties, stated without the program's helpers      *)

LineBreaks == {LF, CR}

\* The number of line breaks that start, and that end, a string.
LeadingBreaks(p) ==
    Cardinality({i \in 1..Len(p) : \A k \in 1..i : p[k] \in LineBreaks})

TrailingBreaks(p) ==
    Cardinality({i \in 1..Len(p) : \A k \in i..Len(p) : p[k] \in LineBreaks})

\* The string without its leading and trailing line breaks.
Trimmed(p) ==
    IF LeadingBreaks(p) = Len(p) THEN <<>>
    ELSE SubSeq(p, LeadingBreaks(p) + 1, Len(p) - TrailingBreaks(p))

LengthInRange(p) ==
    Len(Trimmed(p)) >= 8 /\ Len(Trimmed(p)) <= 128

SameLetter(c, d) ==
    \/ c = d
    \/ \E i \in 1..26 : {c, d} = {LowerSeq[i], UpperSeq[i]}

DenylistTokens ==
    { Str("password"), Str("passw0rd"), Str("qwerty"), Str("asdfgh"),
      Str("zxcvbn"), Str("iloveyou"), Str("welcome"), Str("admin"),
      Str("letmein"), Str("login"), Str("user"), Str("guest"),
      Str("abc123"), Str("password1"), Str("p@ssword"), Str("dragon"),
      Str("football") }

\* Some denylist token occurs in p, in any mix of upper and lower case.
ContainsTokenAnyCase(p) ==
    \E token \in DenylistTokens :
        \E i \in 1..(Len(p) - Len(token) + 1) :
            \A k \in 1..Len(token) : SameLetter(p[i + k - 1], token[k])

EndsWith(p, suffix) ==
    /\ Len(p) >= Len(suffix)
    /\ SubSeq(p, Len(p) - Len(suffix) + 1, Len(p)) = suffix

\* Some character, whatever it is, occurs n times in a row.
SameCharRun(p, n) ==
    \E i \in 1..(Len(p) - n + 1) : \A k \in 1..(n - 1) : p[i + k] = p[i]

\* The last four characters are 19xx or 2000..2039.
YearLikeSuffix(p) ==
    /\ Len(p) >= 4
    /\ LET y == SubSeq(p, Len(p) - 3, Len(p))
       IN  /\ y[3] \in DigitSet /\ y[4] \in DigitSet
           /\ \/ y[1] = "1" /\ y[2] = "9"
              \/ y[1] = "2" /\ y[2] = "0" /\ y[3] \in {"0", "1", "2", "3"}

\* The character classes present: lowercase, uppercase, digit, symbol.
ClassesPresent(p) ==
    { cls \in {"lower", "upper", "digit", "symbol"} :
        \E i \in 1..Len(p) :
            \/ cls = "lower" /\ p[i] \in LowerSet
            \/ cls = "upper" /\ p[i] \in UpperSet
            \/ cls = "digit" /\ p[i] \in DigitSet
            \/ cls = "symbol" /\ p[i] \notin LetterSet \cup DigitSet \cup SpaceSet }

OnlyDigits(p) == p # <<>> /\ \A i \in 1..Len(p) : p[i] \in DigitSet

\* No fatal block but the one named fires, and the score suffices.
OtherwiseAcceptable(text) ==
    /\ ~looks_like_sequence(text, 5) /\ ~has_keyboard_run(text, 5)
    /\ ~repeating_substring(text)
    /\ ~long_run_same_char(text, 4)
    /\ ~ambiguous_ratio_gt(text, 55, 100)
    /\ ScoreOf(text, fpTie) >= 3

-----------------------------------------------------------------------------
(* Properties                                                              *)

\* C1: an input whose length after stripping leading and trailing line
\* breaks is below 8 or above 128 is rejected, whatever its content.
C1_LengthLimits ==
    Returned /\ (Len(Trimmed(password)) < 8 \/ Len(Trimmed(password)) > 128)
        => result = FALSE

\* A password of 129 characters that only the length limit rejects.
C1_Witness ==
    /\ pc = "done"
    /\ Len(Trimmed(password)) = 129
    /\ ~CommonBad(Trimmed(password))
    /\ OtherwiseAcceptable(Trimmed(password))
    /\ result = FALSE

\* C2: an input that contains a denylist token as a substring, in any mix
\* of upper and lower case, is rejected.
C2_Denylist ==
    Returned /\ ContainsTokenAnyCase(password) => result = FALSE

\* A token written with capitals, which only the denylist rejects.
C2_Witness ==
    /\ pc = "done"
    /\ ContainsTokenAnyCase(password)
    /\ \A token \in DenylistTokens : ~In(token, password)
    /\ LengthInRange(password)
    /\ OtherwiseAcceptable(Trimmed(password))
    /\ result = FALSE

\* C3: appending "12345" to a string that is accepted gives a string that
\* is rejected.
C3_AppendSequence ==
    Returned /\ EndsWith(password, Str("12345"))
             /\ is_valid_password(SubSeq(password, 1, Len(password) - 5))
        => result = FALSE

\* An accepted string with "12345" appended, rejected by the run check.
C3_Witness ==
    /\ pc = "done"
    /\ EndsWith(password, Str("12345"))
    /\ is_valid_password(SubSeq(password, 1, Len(password) - 5))
    /\ LengthInRange(password)
    /\ ~CommonBad(s)
    /\ looks_like_sequence(s, 5)
    /\ result = FALSE

\* The fatal checks and the scoring table as C4 words them.
C4_Fatal(t) ==
    \/ ContainsTokenAnyCase(t)
    \/ looks_like_sequence(t, 5) \/ has_keyboard_run(t, 5)
    \/ repeating_substring(t)
    \/ SameCharRun(t, 5)
    \/ ambiguous_ratio_gt(t, 55, 100)

C4_Table(t, tie) ==
    (IF Len(t) >= 10 /\ Len(t) <= 64 THEN 2 ELSE IF Len(t) \in 8..9 THEN 1 ELSE 0)
    + (IF Cardinality(ClassesPresent(t)) >= 3 THEN 2
       ELSE IF Cardinality(ClassesPresent(t)) = 2 THEN 1 ELSE -3)
    + (IF wordish_presence(t) THEN 2 ELSE 0)
    + (IF non_edge_digit_symbol(t) THEN 1 ELSE 0)
    + (IF YearLikeSuffix(t) THEN -2 ELSE 0)
    + (IF looks_like_sequence(t, 4) THEN -2 ELSE 0)
    + (IF has_keyboard_run(t, 4) THEN -2 ELSE 0)
    + (IF SameCharRun(t, 4) THEN -2 ELSE 0)
    + (IF 2 * Cardinality(Range(t)) >= Len(t) THEN 1
       ELSE IF 10 * Cardinality(Range(t)) <= 3 * Len(t) THEN -1 ELSE 0)
    + (IF ambiguous_ratio_gt(t, 35, 100) THEN -2
       ELSE IF ambiguous_ratio_gt(t, 15, 100) THEN -1 ELSE 0)
    + (IF Len(t) >= 12 /\ entropy_at_least_2_5(t, tie) THEN 1 ELSE 0)

\* C4: for a trimmed length of 8..128 the verdict is true exactly when no
\* fatal check fires (denylist, sequential or keyboard run of 5, repetition
\* of period 1..3, same-character run of 5 or more, ambiguous ratio above
\* 0.55) and the deltas of the scoring table sum to 3 or more.
C4_Verdict ==
    pc = "done" /\ LengthInRange(password)
        => (result <=> /\ ~C4_Fatal(Trimmed(password))
                       /\ C4_Table(Trimmed(password), fpTie) >= 3)

\* C5: a password of trimmed length 8..128 that ends with a year-like
\* suffix (19xx, 2000..2039) is rejected.
C5_YearSuffixRejected ==
    pc = "done" /\ LengthInRange(password) /\ YearLikeSuffix(Trimmed(password))
        => result = FALSE

\* C6: each of the ten accepted examples of the docstring triggers no fatal
\* check, reaches a score of 3 or more and is accepted.
C6_AcceptedExamples ==
    pc = "done" /\ password \in AcceptedExamples
        => /\ result = TRUE
           /\ ~FatalBlocks(s)
           /\ score >= 3

\* An accepted example has been judged and printed as accepted.
C6_Witness ==
    /\ pc = "done"
    /\ password = Str("NovaTrail_19$elm")
    /\ score >= 3
    /\ output = "Accept"

\* C7: an input of trimmed length 8..128 in which some character, whatever
\* it is, occurs 5 or more times in a row is rejected.
C7_SameCharRunRejected ==
    pc = "done" /\ LengthInRange(password) /\ SameCharRun(Trimmed(password), 5)
        => result = FALSE

\* C8: non_edge_digit_symbol is true of "mintChai#27Drift" and false of
\* "password123", the examples of its docstring.
C8_InteriorExamples ==
    /\ s = Str("mintChai#27Drift") => non_edge_digit_symbol(s)
    /\ s = Str("password123") => ~non_edge_digit_symbol(s)

\* C9: the verdict does not change when line breaks are added or removed at
\* the two ends: every string obtained from the input by dropping leading
\* and trailing line breaks has the verdict of the input.
C9_PaddingInvariance ==
    pc = "done" =>
        \A i \in 0..LeadingBreaks(password) :
            \A j \in 0..TrailingBreaks(password) :
                i + j <= Len(password)
                    => is_valid_password(SubSeq(password, i + 1, Len(password) - j))
                         = result

\* A padded password is accepted although, padding included, it is longer
\* than the length limit.
C9_Witness ==
    /\ pc = "done"
    /\ LeadingBreaks(password) > 0
    /\ TrailingBreaks(password) > 0
    /\ Len(password) > 128
    /\ result = TRUE

\* C10: an input with at most one character class present and no word-like
\* part is rejected; in particular an input of digits only is rejected.
C10_OneClassRejected ==
    Returned =>
        /\ ( /\ Cardinality(ClassesPresent(password)) <= 1
             /\ ~wordish_presence(Trimmed(password)) ) => result = FALSE
        /\ OnlyDigits(password) => result = FALSE

\* A one-class password without a word reaches the scoring and the highest
\* score such a password can have.
C10_Witness ==
    /\ pc = "done"
    /\ Cardinality(ClassesPresent(password)) <= 1
    /\ ~wordish_presence(Trimmed(password))
    /\ score = 2
    /\ result = FALSE

====
